---- MODULE Spec2Model ----
(***************************************************************************)
(* Model of BaseMarketMaker (src/base_market_maker.py): the run() loop,    *)
(* refresh_all_orders, refresh_individual_orders and send_all_orders,      *)
(* together with the venue the hooks talk to.                              *)
(*                                                                         *)
(* The hook methods (check_order_fills, delete_all_orders,                 *)
(* order_refresh_needed, process_order_fill, send_limit_order,             *)
(* set_order_levels) have no body in the base class; each is modelled by   *)
(* the contract its docstring states, with its result chosen               *)
(* nondeterministically among the documented outcomes.                     *)
(***************************************************************************)
EXTENDS Integers, Sequences, FiniteSets, TLC

\* ------------------------------------------------------------------ bounds
\* Largest number of levels per side that set_order_levels produces.
MaxLevels == 2
\* Largest number of set_order_levels calls in one behaviour.
MaxGen == 2
\* Largest number of venue faults (fills, failed sends) in one behaviour.
MaxFaults == 1

VARIABLES
    symbolDefined,  \* whether the instance has an attribute `symbol` (line 222 reads it)
    ask_levels,     \* self.ask_levels: level index -> Level
    bid_levels,     \* self.bid_levels
    active_asks,    \* self.active_asks: level index -> clOrdID (or "")
    active_bids,    \* self.active_bids
    refresh_individually, \* local flag of run()
    refresh_all,          \* local flag of run()
    pc,             \* position of the control thread
    sa,             \* locals of send_all_orders: num_asks, num_bids, iterations, i, ret
    gen,            \* number of set_order_levels calls made so far
    live,           \* venue: client order IDs of the orders live on the venue
    unprocessed,    \* venue: orders filled (fully or partially) and not yet processed
    error,          \* the exception that ended run(), "" while none
    trace,          \* calls made by run() in the current loop iteration
    sendlog,        \* send_limit_order calls of the current send_all_orders
    raceFills,      \* orders filled while the current cancel-all was in flight
    snap,           \* levels and handles as they were when refresh_all_orders started
    nFaults         \* number of fills and failed sends so far

vars == <<symbolDefined, ask_levels, bid_levels, active_asks, active_bids,
          refresh_individually, refresh_all, pc, sa, gen, live, unprocessed,
          error, trace, sendlog, raceFills, snap, nFaults>>

\* ------------------------------------------------------------ data model
\* send_limit_order's failure value, the empty string "".
EmptyStr == <<>>

\* A client order ID, unique per (set_order_levels call, side, level).
ClOrdID(g, side, i) == <<g, side, i>>

\* One planned level: the kwargs of send_limit_order (price and quantity are
\* determined by the set_order_levels call that produced the level).
Level(g, side, i) == [clOrdID |-> ClOrdID(g, side, i), side |-> side, gen |-> g]

\* An empty Python dict.
EmptyDict == [k \in {} |-> EmptyStr]

\* d[k] = v on a Python dict.
DictSet(d, k, v) == [x \in (DOMAIN d) \cup {k} |-> IF x = k THEN v ELSE d[x]]

\* len(d) on a Python dict.
DictLen(d) == Cardinality(DOMAIN d)

\* The key sets set_order_levels produces: levels 0 .. n-1, 0 the top of book.
LevelKeySets == {0 .. (n - 1) : n \in 0 .. MaxLevels}

\* Every set of level indexes a dictionary can have as its keys.
AnyKeySets == SUBSET (0 .. (MaxLevels - 1))

LevelDict(g, side, keys) == [i \in keys |-> Level(g, side, i)]

Max(a, b) == IF a >= b THEN a ELSE b

Event(op, x, y) == [op |-> op, x |-> x, y |-> y]

NoLocals == [num_asks |-> 0, num_bids |-> 0, iterations |-> 0, i |-> 0, ret |-> "none"]

NoSnap == [ask_levels |-> EmptyDict, bid_levels |-> EmptyDict,
           active_asks |-> EmptyDict, active_bids |-> EmptyDict]

\* ------------------------------------------------------------------ Init
\* The state after __init__: all four dictionaries empty.  A child class may
\* add attributes in its constructor, so `symbol` may or may not exist.
Init ==
    /\ symbolDefined \in BOOLEAN
    /\ ask_levels = EmptyDict
    /\ bid_levels = EmptyDict
    /\ active_asks = EmptyDict
    /\ active_bids = EmptyDict
    /\ refresh_individually = FALSE
    /\ refresh_all = FALSE
    /\ pc = "constructed"
    /\ sa = NoLocals
    /\ gen = 0
    /\ live = {}
    /\ unprocessed = {}
    /\ error = ""
    /\ trace = <<>>
    /\ sendlog = <<>>
    /\ raceFills = {}
    /\ snap = NoSnap
    /\ nFaults = 0

\* ------------------------------------------------------------ hook: levels
\* set_order_levels(): replaces both level dictionaries by fresh levels.
SetOrderLevelsTo(askKeys, bidKeys) ==
    /\ gen' = gen + 1
    /\ ask_levels' = LevelDict(gen + 1, "sell", askKeys)
    /\ bid_levels' = LevelDict(gen + 1, "buy", bidKeys)

\* The caller sets the levels before run() (send_all_orders' docstring asks
\* for it); run() itself does not.
CallerSetOrderLevelsIn(keySets) ==
    /\ pc = "constructed"
    /\ gen = 0
    /\ \E askKeys \in keySets, bidKeys \in keySets :
          SetOrderLevelsTo(askKeys, bidKeys)
    /\ UNCHANGED <<symbolDefined, active_asks, active_bids, refresh_individually,
                   refresh_all, pc, sa, live, unprocessed, error, trace, sendlog,
                   raceFills, snap, nFaults>>

CallerSetOrderLevels == CallerSetOrderLevelsIn(LevelKeySets)

\* ------------------------------------------------------- send_all_orders
\* Mutant of Iterations: the loop bound taken from the ask side alone.
Iterations_AsksOnly(num_asks, num_bids) == num_asks

\* Line 259: iterations = max(num_asks, num_bids).
Iterations(num_asks, num_bids) == Max(num_asks, num_bids)

\* Lines 257-259: the locals of send_all_orders, computed once on entry from
\* the level dictionaries `asks` and `bids`; `ret` is the caller.
SendLocals(asks, bids, ret) ==
    [num_asks |-> DictLen(asks),
     num_bids |-> DictLen(bids),
     iterations |-> Iterations(DictLen(asks), DictLen(bids)),
     i |-> 0,
     ret |-> ret]

\* Mutant of LoopPc: a failed submission ends the for loop.
LoopPc_StopsOnFailure(i, locals) ==
    IF i < locals.iterations /\ \A k \in DOMAIN sendlog : sendlog[k].ret # EmptyStr
    THEN "send_ask" ELSE "loop_top"

\* Line 261: for i in range(iterations).  When the range is exhausted
\* send_all_orders returns: to the top of the loop of run() (line 104), after
\* lines 121-123 when the caller is refresh_all_orders.
LoopPc(i, locals) == IF i < locals.iterations THEN "send_ask" ELSE "loop_top"

\* Lines 121-123: refresh_individually = False; refresh_all = False, once
\* refresh_all_orders (hence its send_all_orders) has returned.
FlagAfterSend(flag, i, locals) ==
    IF LoopPc(i, locals) = "loop_top" /\ locals.ret = "refresh_all_orders"
    THEN FALSE ELSE flag

\* Mutant of AskWanted: the ask of level 0 is skipped.
AskWanted_SkipsFirst(i, num_asks) == 0 < i /\ i < num_asks

\* Line 263: if i < num_asks.
AskWanted(i, num_asks) == i < num_asks

\* Mutant of BidWanted: an off-by-one comparison.
BidWanted_OffByOne(i, num_bids) == i <= num_bids

\* Line 268: if i < num_bids.
BidWanted(i, num_bids) == i < num_bids

\* send_limit_order(**kwargs, verifyOrder=False): returns the clOrdID when the
\* order was sent (it is then on the venue), "" when the send failed.
SendLimitOrderResult(kwargs, ok) == IF ok THEN kwargs.clOrdID ELSE EmptyStr

\* What send_limit_order leaves on the venue.
SendLimitOrderVenue(kwargs, ok) == IF ok THEN live \cup {kwargs.clOrdID} ELSE live

SendRecord(i, kwargs, ret) ==
    [i |-> i, side |-> kwargs.side, kwargs |-> kwargs, verifyOrder |-> FALSE, ret |-> ret]

\* run() lines 98-101: the initial submission, before the loop.
RunStart ==
    /\ pc = "constructed"
    /\ sa' = SendLocals(ask_levels, bid_levels, "run")
    /\ sendlog' = <<>>
    /\ pc' = LoopPc(0, SendLocals(ask_levels, bid_levels, "run"))
    /\ UNCHANGED <<symbolDefined, ask_levels, bid_levels, active_asks, active_bids,
                   refresh_individually, refresh_all, gen, live, unprocessed, error,
                   trace, raceFills, snap, nFaults>>

\* Lines 263-265: self.active_asks[i] = self.send_limit_order(**kwargs, verifyOrder=False).
SendAsk ==
    /\ pc = "send_ask"
    /\ IF AskWanted(sa.i, sa.num_asks)
       THEN IF sa.i \in DOMAIN ask_levels
            THEN \E ok \in BOOLEAN :
                   LET kwargs == ask_levels[sa.i]
                       ret == SendLimitOrderResult(kwargs, ok)
                   IN /\ ~ok => nFaults < MaxFaults
                      /\ nFaults' = IF ok THEN nFaults ELSE nFaults + 1
                      /\ active_asks' = DictSet(active_asks, sa.i, ret)
                      /\ live' = SendLimitOrderVenue(kwargs, ok)
                      /\ sendlog' = Append(sendlog, SendRecord(sa.i, kwargs, ret))
                      /\ pc' = "send_bid"
                      /\ error' = error
            ELSE \* self.ask_levels[i] raises KeyError
                 /\ pc' = "raised"
                 /\ error' = "KeyError"
                 /\ UNCHANGED <<active_asks, live, sendlog, nFaults>>
       ELSE /\ pc' = "send_bid"
            /\ UNCHANGED <<active_asks, live, sendlog, error, nFaults>>
    /\ UNCHANGED <<symbolDefined, ask_levels, bid_levels, active_bids,
                   refresh_individually, refresh_all, sa, gen, unprocessed, trace,
                   raceFills, snap>>

\* Lines 268-270: self.active_bids[i] = self.send_limit_order(**kwargs, verifyOrder=False),
\* then the next iteration of the for loop.
SendBid ==
    /\ pc = "send_bid"
    /\ IF BidWanted(sa.i, sa.num_bids)
       THEN IF sa.i \in DOMAIN bid_levels
            THEN \E ok \in BOOLEAN :
                   LET kwargs == bid_levels[sa.i]
                       ret == SendLimitOrderResult(kwargs, ok)
                   IN /\ ~ok => nFaults < MaxFaults
                      /\ nFaults' = IF ok THEN nFaults ELSE nFaults + 1
                      /\ active_bids' = DictSet(active_bids, sa.i, ret)
                      /\ live' = SendLimitOrderVenue(kwargs, ok)
                      /\ sendlog' = Append(sendlog, SendRecord(sa.i, kwargs, ret))
                      /\ pc' = LoopPc(sa.i + 1, sa)
                      /\ sa' = [sa EXCEPT !.i = @ + 1]
                      /\ refresh_individually' = FlagAfterSend(refresh_individually, sa.i + 1, sa)
                      /\ refresh_all' = FlagAfterSend(refresh_all, sa.i + 1, sa)
                      /\ error' = error
            ELSE \* self.bid_levels[i] raises KeyError
                 /\ pc' = "raised"
                 /\ error' = "KeyError"
                 /\ UNCHANGED <<active_bids, live, sendlog, sa, nFaults,
                                refresh_individually, refresh_all>>
       ELSE /\ pc' = LoopPc(sa.i + 1, sa)
            /\ sa' = [sa EXCEPT !.i = @ + 1]
            /\ refresh_individually' = FlagAfterSend(refresh_individually, sa.i + 1, sa)
            /\ refresh_all' = FlagAfterSend(refresh_all, sa.i + 1, sa)
            /\ UNCHANGED <<active_bids, live, sendlog, error, nFaults>>
    /\ UNCHANGED <<symbolDefined, ask_levels, bid_levels, active_asks,
                   gen, unprocessed, trace, raceFills, snap>>

\* ------------------------------------------------------------------ venue
\* The venue fills a live order, fully (the order leaves the book) or partly
\* (it stays live).  It can happen at any moment, also while a cancel-all is
\* in flight (run(), comment lines 93-95).
Fill ==
    /\ nFaults < MaxFaults
    /\ nFaults' = nFaults + 1
    /\ \E id \in live, full \in BOOLEAN :
          /\ live' = IF full THEN live \ {id} ELSE live
          /\ unprocessed' = unprocessed \cup {id}
          /\ raceFills' = IF pc = "delete_wait" THEN raceFills \cup {id} ELSE raceFills
    /\ UNCHANGED <<symbolDefined, ask_levels, bid_levels, active_asks, active_bids,
                   refresh_individually, refresh_all, pc, sa, gen, error, trace,
                   sendlog, snap>>

\* Mutant of CheckOrderFillsResult: fills are seen by the check of line 114 only.
CheckOrderFillsResult_LoopOnly == unprocessed # {} /\ pc = "check_fills"

\* check_order_fills(): True if any orders were filled.
CheckOrderFillsResult == unprocessed # {}

\* ------------------------------------------------------------- run() loop
\* Mutant of FillCheckWanted: only refresh_all suppresses the fill check.
FillCheckWanted_IgnoresIndividual(ri, ra) == ~ra

\* Line 111: the fill check is made only when neither flag is set.
FillCheckWanted(ri, ra) == ~ri /\ ~ra

\* Mutant of RefreshBranch: the two tests in the opposite order.
RefreshBranch_IndividualFirst(ri, ra) ==
    IF ri THEN "individual" ELSE IF ra THEN "all" ELSE "none"

\* Lines 118 and 125: if refresh_all ... elif refresh_individually ...
RefreshBranch(ri, ra) == IF ra THEN "all" ELSE IF ri THEN "individual" ELSE "none"

\* Where lines 118-130 lead: into refresh_all_orders, into
\* refresh_individual_orders, or back to the top of the loop.
BranchPc(ri, ra) ==
    CASE RefreshBranch(ri, ra) = "all" -> "refresh_all"
      [] RefreshBranch(ri, ra) = "individual" -> "refresh_individual"
      [] OTHER -> "loop_top"

\* Line 107: refresh_individually, refresh_all = self.order_refresh_needed().
OrderRefreshNeeded ==
    /\ pc = "loop_top"
    /\ \E ri \in BOOLEAN, ra \in BOOLEAN :
          /\ ra => gen < MaxGen
          /\ refresh_individually' = ri
          /\ refresh_all' = ra
          /\ trace' = <<Event("order_refresh_needed", ri, ra)>>
          /\ pc' = IF FillCheckWanted(ri, ra) THEN "check_fills" ELSE BranchPc(ri, ra)
    /\ raceFills' = {}
    /\ sendlog' = <<>>
    /\ snap' = NoSnap
    /\ UNCHANGED <<symbolDefined, ask_levels, bid_levels, active_asks, active_bids,
                   sa, gen, live, unprocessed, error, nFaults>>

\* Mutant of AfterCheck: process_order_fill is never called.
AfterCheck_NeverProcess(filled, thenPc, elsePc) == elsePc

\* Lines 114 and 227: if self.check_order_fills(): self.process_order_fill().
AfterCheck(filled, thenPc, elsePc) == IF filled THEN thenPc ELSE elsePc

\* Line 114.
CheckOrderFills ==
    /\ pc = "check_fills"
    /\ trace' = Append(trace, Event("check_order_fills", CheckOrderFillsResult, FALSE))
    /\ pc' = AfterCheck(CheckOrderFillsResult, "process_fill",
                        BranchPc(refresh_individually, refresh_all))
    /\ UNCHANGED <<symbolDefined, ask_levels, bid_levels, active_asks, active_bids,
                   refresh_individually, refresh_all, sa, gen, live, unprocessed,
                   error, sendlog, raceFills, snap, nFaults>>

\* Mutant of ProcessOrderFillAt: processing a fill also drops the ask levels.
ProcessOrderFillAt_DropsLevels(here, next) ==
    /\ pc = here
    /\ unprocessed' = {}
    /\ trace' = Append(trace, Event("process_order_fill", FALSE, FALSE))
    /\ pc' = next
    /\ ask_levels' = EmptyDict
    /\ UNCHANGED <<symbolDefined, bid_levels, active_asks, active_bids,
                   refresh_individually, refresh_all, sa, gen, live, error, sendlog,
                   raceFills, snap, nFaults>>

\* process_order_fill(): handles every fill detected so far.
ProcessOrderFillAt(here, next) ==
    /\ pc = here
    /\ unprocessed' = {}
    /\ trace' = Append(trace, Event("process_order_fill", FALSE, FALSE))
    /\ pc' = next
    /\ UNCHANGED <<symbolDefined, ask_levels, bid_levels, active_asks, active_bids,
                   refresh_individually, refresh_all, sa, gen, live, error, sendlog,
                   raceFills, snap, nFaults>>

\* Line 115.
ProcessOrderFill ==
    ProcessOrderFillAt("process_fill", BranchPc(refresh_individually, refresh_all))

\* Line 222: the arguments of the call delete_all_orders(self.symbol,
\* verify=True, retries=1); the first is read from the attribute `symbol`.
DeleteAllOrdersCall == [symbolAttr |-> "symbol", verify |-> TRUE, retries |-> 1]

\* Lines 118-119 and 222: refresh_all_orders() starts; evaluating self.symbol
\* raises AttributeError when the instance has no such attribute, otherwise
\* delete_all_orders(self.symbol, verify=True, retries=1) is called.
RefreshAllOrdersCall ==
    /\ pc = "refresh_all"
    /\ snap' = [ask_levels |-> ask_levels, bid_levels |-> bid_levels,
                active_asks |-> active_asks, active_bids |-> active_bids]
    /\ trace' = Append(trace, Event("refresh_all_orders", FALSE, FALSE))
    /\ IF symbolDefined
       THEN /\ pc' = "delete_wait"
            /\ error' = error
       ELSE /\ pc' = "raised"
            /\ error' = "AttributeError"
    /\ UNCHANGED <<symbolDefined, ask_levels, bid_levels, active_asks, active_bids,
                   refresh_individually, refresh_all, sa, gen, live, unprocessed,
                   sendlog, raceFills, nFaults>>

\* Mutant of AfterDelete: the result of delete_all_orders is not tested.
AfterDelete_Unchecked(orders_deleted) == "r_check"

\* Mutant of AfterDelete: the failure is swallowed and the loop goes on.
AfterDelete_Swallowed(orders_deleted) == IF orders_deleted THEN "r_check" ELSE "loop_top"

\* Lines 223-224: if not orders_deleted: raise Exception(...).
AfterDelete(orders_deleted) == IF orders_deleted THEN "r_check" ELSE "raised"

\* delete_all_orders(symbol, verify=True, retries=1) returns: True once every
\* order of the symbol is verified inactive, False when the attempt and its
\* retry both failed.
DeleteAllOrdersReturn ==
    /\ pc = "delete_wait"
    /\ \E orders_deleted \in BOOLEAN :
          /\ live' = IF orders_deleted THEN {} ELSE live
          /\ trace' = Append(trace, Event("delete_all_orders", orders_deleted, FALSE))
          /\ pc' = AfterDelete(orders_deleted)
          /\ error' = IF AfterDelete(orders_deleted) = "raised" THEN "Exception" ELSE error
          /\ snap' = IF AfterDelete(orders_deleted) = "raised" THEN snap ELSE NoSnap
    /\ UNCHANGED <<symbolDefined, ask_levels, bid_levels, active_asks, active_bids,
                   refresh_individually, refresh_all, sa, gen, unprocessed, sendlog,
                   raceFills, nFaults>>

\* Line 227.
RefreshCheckOrderFills ==
    /\ pc = "r_check"
    /\ trace' = Append(trace, Event("check_order_fills", CheckOrderFillsResult, FALSE))
    /\ pc' = AfterCheck(CheckOrderFillsResult, "r_process", "r_set")
    /\ UNCHANGED <<symbolDefined, ask_levels, bid_levels, active_asks, active_bids,
                   refresh_individually, refresh_all, sa, gen, live, unprocessed,
                   error, sendlog, raceFills, snap, nFaults>>

\* Line 228.
RefreshProcessOrderFill == ProcessOrderFillAt("r_process", "r_set")

\* Lines 231-232: self.set_order_levels(); self.send_all_orders() (entered:
\* its locals are computed from the new levels).
RefreshSetOrderLevelsIn(keySets) ==
    /\ pc = "r_set"
    /\ \E askKeys \in keySets, bidKeys \in keySets :
          LET locals == SendLocals(LevelDict(gen + 1, "sell", askKeys),
                                   LevelDict(gen + 1, "buy", bidKeys),
                                   "refresh_all_orders")
          IN /\ SetOrderLevelsTo(askKeys, bidKeys)
             /\ sa' = locals
             /\ pc' = LoopPc(0, locals)
             /\ refresh_individually' = FlagAfterSend(refresh_individually, 0, locals)
             /\ refresh_all' = FlagAfterSend(refresh_all, 0, locals)
    /\ sendlog' = <<>>
    /\ trace' = trace \o <<Event("set_order_levels", FALSE, FALSE),
                           Event("send_all_orders", FALSE, FALSE)>>
    /\ UNCHANGED <<symbolDefined, active_asks, active_bids, live, unprocessed, error,
                   raceFills, snap, nFaults>>

RefreshSetOrderLevels == RefreshSetOrderLevelsIn(LevelKeySets)

\* Mutant of RefreshIndividualOrders: the refresh forgets every handle.
RefreshIndividualOrders_ForgetsHandles ==
    /\ pc = "refresh_individual"
    /\ trace' = Append(trace, Event("refresh_individual_orders", FALSE, FALSE))
    /\ refresh_individually' = FALSE
    /\ refresh_all' = FALSE
    /\ pc' = "loop_top"
    /\ active_asks' = EmptyDict
    /\ active_bids' = EmptyDict
    /\ UNCHANGED <<symbolDefined, ask_levels, bid_levels, sa, gen, live, unprocessed,
                   error, sendlog, raceFills, snap, nFaults>>

\* Lines 125-130 and 234-249: refresh_individual_orders() has the body
\* `pass`; both flags are cleared after it.
RefreshIndividualOrders ==
    /\ pc = "refresh_individual"
    /\ trace' = Append(trace, Event("refresh_individual_orders", FALSE, FALSE))
    /\ refresh_individually' = FALSE
    /\ refresh_all' = FALSE
    /\ pc' = "loop_top"
    /\ UNCHANGED <<symbolDefined, ask_levels, bid_levels, active_asks, active_bids,
                   sa, gen, live, unprocessed, error, sendlog, raceFills, snap, nFaults>>

Next ==
    \/ CallerSetOrderLevels
    \/ RunStart
    \/ SendAsk
    \/ SendBid
    \/ Fill
    \/ OrderRefreshNeeded
    \/ CheckOrderFills
    \/ ProcessOrderFill
    \/ RefreshAllOrdersCall
    \/ DeleteAllOrdersReturn
    \/ RefreshCheckOrderFills
    \/ RefreshProcessOrderFill
    \/ RefreshSetOrderLevels
    \/ RefreshIndividualOrders

Spec == Init /\ [][Next]_vars

\* run() has no try/except/finally: an interrupt delivered to the thread
\* (KeyboardInterrupt, cancellation of the task) ends run() where it stands.
Interrupt ==
    /\ pc \notin {"constructed", "raised", "interrupted"}
    /\ pc' = "interrupted"
    /\ error' = "KeyboardInterrupt"
    /\ UNCHANGED <<symbolDefined, ask_levels, bid_levels, active_asks, active_bids,
                   refresh_individually, refresh_all, sa, gen, live, unprocessed,
                   trace, sendlog, raceFills, snap, nFaults>>

NextInterruptible ==
    \/ Next
    \/ Interrupt

\* run() under external cancellation.
SpecInterrupt == Init /\ [][NextInterruptible]_vars

\* set_order_levels is free to key the level dictionaries by any set of
\* level indexes.
CallerSetOrderLevelsAnyKeys == CallerSetOrderLevelsIn(AnyKeySets)

RefreshSetOrderLevelsAnyKeys == RefreshSetOrderLevelsIn(AnyKeySets)

NextAnyKeys ==
    \/ CallerSetOrderLevelsAnyKeys
    \/ RunStart
    \/ SendAsk
    \/ SendBid
    \/ Fill
    \/ OrderRefreshNeeded
    \/ CheckOrderFills
    \/ ProcessOrderFill
    \/ RefreshAllOrdersCall
    \/ DeleteAllOrdersReturn
    \/ RefreshCheckOrderFills
    \/ RefreshProcessOrderFill
    \/ RefreshSetOrderLevelsAnyKeys
    \/ RefreshIndividualOrders

\* run() with level dictionaries of any key set.
SpecAnyKeys == Init /\ [][NextAnyKeys]_vars

\* ---------------------------------------------------------------- claims
\* Helpers over the call trace of the current loop iteration.
HasOp(op) == \E k \in DOMAIN trace : trace[k].op = op

CountOp(op) == Cardinality({k \in DOMAIN trace : trace[k].op = op})

PosOp(op) == CHOOSE k \in DOMAIN trace : trace[k].op = op

IsPrefix(s, t) == Len(s) <= Len(t) /\ \A k \in 1 .. Len(s) : s[k] = t[k]

\* The engine's own steps: every action of Next but the venue's Fill.
EngineStep ==
    \/ CallerSetOrderLevels \/ RunStart \/ SendAsk \/ SendBid
    \/ OrderRefreshNeeded \/ CheckOrderFills \/ ProcessOrderFill
    \/ RefreshAllOrdersCall \/ DeleteAllOrdersReturn \/ RefreshCheckOrderFills
    \/ RefreshProcessOrderFill \/ RefreshSetOrderLevels \/ RefreshIndividualOrders

\* A send_all_orders has run to its end and control is back in run().
SendCompleted == pc = "loop_top" /\ (trace = <<>> \/ HasOp("send_all_orders"))

ActiveOf(side) == IF side = "sell" THEN active_asks ELSE active_bids

\* C1: no orphaned submissions.  After a send_all_orders, a level whose
\* send_limit_order returned the failure value "" is not a key of the active
\* dictionary of its side.
C1_NoOrphanedSubmission ==
    SendCompleted =>
        \A k \in DOMAIN sendlog :
            sendlog[k].ret = EmptyStr => sendlog[k].i \notin DOMAIN ActiveOf(sendlog[k].side)

\* C2: retry exhaustion is fatal.  Once delete_all_orders has returned failure
\* inside refresh_all_orders, that is the last call of the iteration (no
\* set_order_levels, no send_all_orders, no send_limit_order after it), an
\* exception has been raised, the levels and the active dictionaries are as
\* they were when refresh_all_orders started, and run() takes no further step.
C2_RetryExhaustionFatal ==
    \A k \in DOMAIN trace :
        (trace[k].op = "delete_all_orders" /\ ~trace[k].x) =>
            /\ k = Len(trace)
            /\ pc = "raised"
            /\ error = "Exception"
            /\ sendlog = <<>>
            /\ ask_levels = snap.ask_levels
            /\ bid_levels = snap.bid_levels
            /\ active_asks = snap.active_asks
            /\ active_bids = snap.active_bids
            /\ ~ENABLED EngineStep

\* Witness of C2: the cancel-all failed while handles were recorded.
C2_Witness ==
    /\ pc = "raised"
    /\ error = "Exception"
    /\ trace[Len(trace)].op = "delete_all_orders"
    /\ snap.active_asks # EmptyDict
    /\ live # {}

\* The calls of the iteration after refresh_all_orders was entered, each with
\* its result.
RefreshCalls ==
    IF HasOp("refresh_all_orders")
    THEN [k \in 1 .. (Len(trace) - PosOp("refresh_all_orders")) |->
             <<trace[PosOp("refresh_all_orders") + k].op,
               trace[PosOp("refresh_all_orders") + k].x>>]
    ELSE <<>>

RefreshOrderNoFill ==
    << <<"delete_all_orders", TRUE>>, <<"check_order_fills", FALSE>>,
       <<"set_order_levels", FALSE>>, <<"send_all_orders", FALSE>> >>

RefreshOrderFill ==
    << <<"delete_all_orders", TRUE>>, <<"check_order_fills", TRUE>>,
       <<"process_order_fill", FALSE>>, <<"set_order_levels", FALSE>>,
       <<"send_all_orders", FALSE>> >>

RefreshOrderFailed == << <<"delete_all_orders", FALSE>> >>

C6_ActiveKeysAreLive ==
    /\ \A i \in DOMAIN active_asks :
          active_asks[i] # EmptyStr => active_asks[i] \in live \cup unprocessed
    /\ \A i \in DOMAIN active_bids :
          active_bids[i] # EmptyStr => active_bids[i] \in live \cup unprocessed

\* C7: loop step 2 gating.  In an iteration, check_order_fills is the call
\* that follows order_refresh_needed if and only if both flags came back
\* False; process_order_fill follows that check if and only if it returned
\* True; with a flag set no fill check is made before the refresh.
C7_FillCheckGating ==
    trace # <<>> =>
        LET ri == trace[1].x
            ra == trace[1].y
        IN /\ trace[1].op = "order_refresh_needed"
           /\ Len(trace) >= 2 => (trace[2].op = "check_order_fills" <=> (~ri /\ ~ra))
           /\ (pc # "check_fills" /\ ~ri /\ ~ra) => Len(trace) >= 2
           /\ (Len(trace) >= 2 /\ trace[2].op = "check_order_fills") =>
                 /\ pc = "process_fill" <=> (trace[2].x /\ Len(trace) = 2)
                 /\ Len(trace) >= 3 <=> (trace[2].x /\ pc # "process_fill")
                 /\ Len(trace) >= 3 => (trace[3].op = "process_order_fill" /\ Len(trace) = 3)
           /\ (ri \/ ra) => pc \notin {"check_fills", "process_fill"}

\* Witness of C7: an iteration without refresh that detected and processed a fill.
C7_Witness ==
    /\ pc = "loop_top"
    /\ Len(trace) = 3
    /\ trace[1] = Event("order_refresh_needed", FALSE, FALSE)
    /\ trace[3].op = "process_order_fill"

\* C8: refreshAll precedence and exclusivity.  In an iteration at most one
\* refresh runs; refresh_all_orders runs exactly when refresh_all came back
\* True, refresh_individual_orders exactly when only refresh_individually
\* came back True, and none when both came back False.
C8_RefreshPrecedence ==
    trace # <<>> =>
        LET ri == trace[1].x
            ra == trace[1].y
            nAll == CountOp("refresh_all_orders")
            nInd == CountOp("refresh_individual_orders")
        IN /\ nAll + nInd <= 1
           /\ nAll = 1 => ra
           /\ nInd = 1 => (ri /\ ~ra)
           /\ pc \in {"loop_top", "raised"} =>
                 /\ ra => nAll = 1
                 /\ (ri /\ ~ra) => nInd = 1
           /\ pc = "refresh_all" <=> (ra /\ nAll = 0)
           /\ pc = "refresh_individual" <=> (ri /\ ~ra /\ nInd = 0)

\* Witness of C8: both flags came back True and the bulk refresh ran.
C8_Witness ==
    /\ pc = "loop_top"
    /\ trace # <<>>
    /\ trace[1] = Event("order_refresh_needed", TRUE, TRUE)
    /\ CountOp("refresh_all_orders") = 1
    /\ sendlog # <<>>

\* The submissions of iterations i .. n-1 of send_all_orders for a asks and b
\* bids: on each iteration the ask when i < a, then the bid when i < b.
RECURSIVE ExpectedAttempts(_, _, _, _)
ExpectedAttempts(i, n, a, b) ==
    IF i >= n THEN <<>>
    ELSE (IF i < a THEN << <<i, "sell">> >> ELSE <<>>)
         \o (IF i < b THEN << <<i, "buy">> >> ELSE <<>>)
         \o ExpectedAttempts(i + 1, n, a, b)

Attempts == [k \in DOMAIN sendlog |-> <<sendlog[k].i, sendlog[k].side>>]

SubmissionsOf(side) == Cardinality({k \in DOMAIN sendlog : sendlog[k].side = side})

\* C9: mixed-depth submission.  With a ask levels and b bid levels,
\* send_all_orders makes max(a, b) iterations, submits an ask on iteration i
\* exactly when i < a and a bid exactly when i < b, hence a asks and b bids.
C9_MixedDepthSubmission ==
    LET a == DictLen(ask_levels)
        b == DictLen(bid_levels)
        n == IF a >= b THEN a ELSE b
    IN /\ pc \in {"send_ask", "send_bid"} =>
             /\ sa.i < n
             /\ IsPrefix(Attempts, ExpectedAttempts(0, n, a, b))
       /\ SendCompleted =>
             /\ sa.i = n
             /\ Attempts = ExpectedAttempts(0, n, a, b)
             /\ SubmissionsOf("sell") = a
             /\ SubmissionsOf("buy") = b

\* Witness of C9: a send of two asks and one bid has completed.
C9_Witness ==
    /\ SendCompleted
    /\ DictLen(ask_levels) = 2
    /\ DictLen(bid_levels) = 1
    /\ Attempts = << <<0, "sell">>, <<0, "buy">>, <<1, "sell">> >>

\* C10: empty-side semantics.  No step of a send_all_orders that runs with an
\* empty bid_levels submits a bid, changes active_bids or raises; the same for
\* asks.
C10_EmptySide ==
    [][ /\ (pc \in {"send_ask", "send_bid"} /\ bid_levels = EmptyDict) =>
              /\ active_bids' = active_bids
              /\ pc' # "raised"
              /\ \A k \in DOMAIN sendlog' : sendlog'[k].side # "buy"
              /\ \A id \in live' \ live : id[2] # "buy"
        /\ (pc \in {"send_ask", "send_bid"} /\ ask_levels = EmptyDict) =>
              /\ active_asks' = active_asks
              /\ pc' # "raised"
              /\ \A k \in DOMAIN sendlog' : sendlog'[k].side # "sell"
              /\ \A id \in live' \ live : id[2] # "sell"
      ]_vars

\* Witness of C10: a send with two asks and no bid has completed, and
\* active_bids is still empty.
C10_Witness ==
    /\ SendCompleted
    /\ bid_levels = EmptyDict
    /\ Len(sendlog) = 2
    /\ active_bids = EmptyDict
    /\ live # {}

\* C11: bulk vs incremental isolation.  While refresh_individual_orders
\* runs, whatever its refresh set, no handle of either side changes, no order
\* is submitted and no cancel is issued; it returns to the top of the loop
\* with the venue's orders as they were.
C11_IncrementalIsolation ==
    [][ pc = "refresh_individual" =>
           /\ active_asks' = active_asks
           /\ active_bids' = active_bids
           /\ live' \subseteq live
           /\ sendlog' = sendlog
           /\ ~ \E k \in DOMAIN trace' : trace'[k].op = "delete_all_orders"
           /\ pc' \in {"refresh_individual", "loop_top"}
           /\ pc' = "loop_top" => live' = live
      ]_vars

\* Witness of C11: refresh_individual_orders has returned while two asks had
\* handles and orders were live.
C11_Witness ==
    /\ pc = "loop_top"
    /\ HasOp("refresh_individual_orders")
    /\ DictLen(active_asks) = 2
    /\ live # {}

\* C12: incremental refresh protocol.  An iteration that took the
\* refresh_individually branch has, once back at the top of the loop, obtained
\* fresh levels, re-checked for fills and resent orders.
C12_IncrementalRefreshProtocol ==
    (pc = "loop_top" /\ HasOp("refresh_individual_orders")) =>
        /\ HasOp("set_order_levels")
        /\ HasOp("check_order_fills")
        /\ HasOp("send_all_orders")

\* run() has ended, by an exception or by an interrupt.
RunEnded == pc \in {"raised", "interrupted"}

\* The orders the engine believes live: the identifiers its dictionaries hold.
BelievedLive ==
    {active_asks[i] : i \in DOMAIN active_asks} \cup
    {active_bids[i] : i \in DOMAIN active_bids}

\* The last thing run() did was to issue a cancel-all.
CancelAllIssuedLast ==
    /\ trace # <<>>
    /\ \/ trace[Len(trace)].op = "delete_all_orders"
       \/ trace[Len(trace)].op = "refresh_all_orders" /\ symbolDefined

\* C13: shutdown.  Whenever run() has ended while the engine holds handles of
\* orders it believes live, the last thing it did was to issue a cancel-all.
C13_ShutdownCancelsAll ==
    (RunEnded /\ BelievedLive \ {EmptyStr} # {}) => CancelAllIssuedLast

\* C14: bulk cancel parameters.  Every refresh_all_orders that was entered has
\* its cancel-all, with verify=True and retries=1, at the venue adapter (in
\* flight or returned), also when an error was raised.
C14_BulkCancelReachesAdapter ==
    HasOp("refresh_all_orders") =>
        /\ DeleteAllOrdersCall.verify
        /\ DeleteAllOrdersCall.retries = 1
        /\ pc = "delete_wait" \/ HasOp("delete_all_orders")

LevelsOf(side) == IF side = "sell" THEN ask_levels ELSE bid_levels

\* A send_limit_order of the current send_all_orders returned "".
FailedInSend == \E k \in DOMAIN sendlog : sendlog[k].ret = EmptyStr

\* A failed submission raises nothing, and the send it belongs to still
\* attempts every level and returns to a loop that starts another iteration.
FailureAbsorbed ==
    /\ FailedInSend => (pc \in {"send_ask", "send_bid", "loop_top"} /\ error = "")
    /\ (SendCompleted /\ FailedInSend) =>
          /\ Len(sendlog) = DictLen(ask_levels) + DictLen(bid_levels)
          /\ ENABLED OrderRefreshNeeded

\* The level whose turn it is in a send made by refresh_all_orders holds the
\* failure value "" from an earlier submission.
FailedLevelDue(side, here) ==
    /\ pc = here
    /\ sa.ret = "refresh_all_orders"
    /\ sa.i \in DOMAIN ActiveOf(side)
    /\ ActiveOf(side)[sa.i] = EmptyStr

\* The step of send_all_orders at `here` submits the level sa.i of `side`.
SubmitsDueLevel(side, here) ==
    pc' # here =>
        /\ Len(sendlog') = Len(sendlog) + 1
        /\ sendlog'[Len(sendlog')].i = sa.i
        /\ sendlog'[Len(sendlog')].kwargs = LevelsOf(side)[sa.i]

C16_NonTermination ==
    pc # "constructed" =>
        IF RunEnded
        THEN pc = "interrupted" \/ error = "Exception"
        ELSE ENABLED EngineStep

\* C17: levels set before sending.  No send_all_orders of run() has started,
\* the initial one included, before set_order_levels was invoked at least once.
C17_LevelsSetBeforeSending ==
    (sa.ret # "none" \/ pc \in {"send_ask", "send_bid"}) => gen >= 1

\* The keys of a level dictionary of n entries are 0 .. n-1.
DenseKeys(d) == DOMAIN d = 0 .. (DictLen(d) - 1)

\* Every entry of the level dictionary of `side` was submitted exactly once,
\* with verification disabled, and the identifier returned is the handle of
\* its key.
SubmittedOnce(side) ==
    \A i \in DOMAIN LevelsOf(side) :
        /\ Cardinality({k \in DOMAIN sendlog :
                          sendlog[k].i = i /\ sendlog[k].side = side}) = 1
        /\ \E k \in DOMAIN sendlog :
              /\ sendlog[k].i = i
              /\ sendlog[k].kwargs = LevelsOf(side)[i]
              /\ ~sendlog[k].verifyOrder
              /\ i \in DOMAIN ActiveOf(side)
              /\ ActiveOf(side)[i] = sendlog[k].ret

\* No send_all_orders has raised on a missing level key.
SendNotRaised == error # "KeyError"

\* C18 as stated: whatever the key sets of the level dictionaries,
\* send_all_orders does not raise, and when it has returned every entry was
\* submitted exactly once, unverified, its identifier recorded under its key.
C18_CompleteSubmissionAnyKeys ==
    /\ SendNotRaised
    /\ SendCompleted => (SubmittedOnce("sell") /\ SubmittedOnce("buy"))

\* C18 (amended): complete submission.  For level dictionaries whose key sets
\* are 0 .. n-1, send_all_orders does not raise, and when it has returned
\* every entry was submitted exactly once, with verification disabled, and the
\* identifier returned is recorded under the entry's key on the same side.
C18_CompleteSubmissionDenseKeys ==
    (DenseKeys(ask_levels) /\ DenseKeys(bid_levels)) =>
        /\ SendNotRaised
        /\ SendCompleted =>
              /\ SubmittedOnce("sell")
              /\ SubmittedOnce("buy")
              /\ Len(sendlog) = DictLen(ask_levels) + DictLen(bid_levels)

\* Witness of C18: a send of two asks and two bids has returned, one of the
\* four submissions having failed.
C18_Witness ==
    /\ SendCompleted
    /\ DOMAIN ask_levels = {0, 1}
    /\ DOMAIN bid_levels = {0, 1}
    /\ Len(sendlog) = 4
    /\ FailedInSend

\* The calls that an iteration without refresh does not make.
RefreshOps == {"refresh_all_orders", "refresh_individual_orders", "delete_all_orders",
               "set_order_levels", "send_all_orders"}

C20_NoStaleHandles ==
    (SendCompleted /\ HasOp("refresh_all_orders")) =>
        /\ DOMAIN active_asks = DOMAIN ask_levels
        /\ DOMAIN active_bids = DOMAIN bid_levels

====
